---- MODULE Spec2Model ----
(***************************************************************************)
(* Model of rustyscript's worker (src/src/worker.rs): a caller thread that *)
(* owns an InnerWorker (thread handle, Query sender, Response receiver)    *)
(* and the background dispatcher thread that owns the runtime and the      *)
(* module table.  Both adapters are modelled: sync_worker (std::sync::mpsc *)
(* channels) and async_worker (tokio unbounded channels); `adapter` is     *)
(* fixed at Init.  The engine (crate::Runtime) is external: every call     *)
(* into it returns, fails, panics or does not terminate.                   *)
(***************************************************************************)
EXTENDS Naturals, Sequences, FiniteSets

\* ------------------------------------------------------------------ bounds
\* Queries successfully put on the Query channel during one worker's life.
MaxSends == 2
\* Largest module id a caller passes to CallEntrypoint/CallFunction/GetValue.
MaxId == 1
\* Longest panic text (in tokens) enumerated by PanicSpec.
MaxPayloadLen == 4

VARIABLES
    adapter,       \* "sync" | "async": which DefaultWorker is used
    callerPc,      \* where the owning caller is (see WorkerHeld)
    thread,        \* where the background thread is (see ThreadTerminated)
    initChan,      \* init_tx -> init_rx: the handshake channel's queue
    queryChan,     \* qtx -> qrx: Queries sent and not yet dequeued
    respChan,      \* rtx -> rrx: Responses sent and not yet received
    cur,           \* the Query the dispatcher dequeued and is handling
    modules,       \* keys of the dispatcher's module table
    nextId,        \* the id the engine gives the next loaded module
    panicPayload,  \* payload of the background thread's panic, if any
    newResult,     \* what new() returned
    callOp,        \* the adapter operation in flight / last completed
    callResult,    \* what the last adapter operation returned
    rawResult,     \* what the last raw send()/receive() returned
    stopResult,    \* what stop() returned
    joinResult,    \* what join() returned
    \* history (not program state): what was sent, answered and executed
    sentLog,       \* i-th Query put on the Query channel: "Stop" or "Op"
    respLog,       \* the Responses put on the Response channel, in order
    initLog,       \* the handshake signals put on the init channel
    lastExec,      \* index of the last Query an Engine operation ran for
    lastOutcome,   \* how that Engine operation ended
    lastOp,        \* which method of the runtime it was (if traced)
    traced,        \* whether lastOp is recorded in this behaviour
    util,          \* a call of one of the utilities (validate, a callback)
    nDequeued,     \* Queries the dispatcher has dequeued
    callIdx,       \* index of the in-flight operation's Query (0: not sent)
    callAfterStop, \* the operation was invoked after a Stop had been sent
    stopIdx,       \* index of the Stop Query sent by stop() (0: none)
    stopIdle,      \* stop() was called while the dispatcher was idle
    \* tasks that share the cooperative worker by reference
    taskPc,        \* per task: "idle", "held" (holds extLock, before its
                   \* send), "sent" (before rx.lock()), "locked"
    taskOp,        \* per task: the adapter operation it runs
    taskIdx,       \* per task: index of the Query it sent (history)
    taskGot,       \* per task: index of the Query whose Response it got
    taskResult,    \* per task: what its operation returned
    rxLock,        \* holder of the Response receiver's mutex (0: free)
    extLock        \* holder of the callers' own lock around a call (0: free)

vars == << adapter, callerPc, thread, initChan, queryChan, respChan, cur,
           modules, nextId, panicPayload, newResult, callOp, callResult,
           rawResult, stopResult, joinResult, sentLog, respLog, initLog,
           lastExec, lastOutcome, lastOp, traced, util, nDequeued, callIdx, callAfterStop, stopIdx,
           stopIdle, taskPc, taskOp, taskIdx, taskGot, taskResult, rxLock,
           extLock >>

taskVars == << taskPc, taskOp, taskIdx, taskGot, taskResult, rxLock,
              extLock >>

\* --------------------------------------------------------- protocol types
Adapters == {"sync", "async"}

\* DefaultWorkerQuery: the operations an adapter method encodes.
OpKinds == {"Eval", "LoadMainModule", "LoadModule",
            "CallEntrypoint", "CallFunction", "GetValue"}

\* Module-id argument of a Query: 0 stands for None / no argument.
IdArgs(kind) ==
    CASE kind = "CallEntrypoint" -> 1..MaxId
      [] kind \in {"CallFunction", "GetValue"} -> 0..MaxId
      [] OTHER -> {0}

Query(kind, id, q) == [kind |-> kind, id |-> id, q |-> q]

NoQuery == Query("none", 0, 0)

\* DefaultWorkerResponse; q is the index of the Query it was produced for.
Response(tag, id, e, q) == [tag |-> tag, id |-> id, e |-> e, q |-> q]

\* Result<_, Error> as seen by the caller.  An Error is a sequence of tokens:
\* its variant, then its message.
NoError == << >>
NoResult == [tag |-> "none", e |-> NoError, id |-> 0]
OkResult(id) == [tag |-> "Ok", e |-> NoError, id |-> id]
ErrResult(e) == [tag |-> "Err", e |-> e, id |-> 0]

RuntimeError(msg) == << "Runtime" >> \o msg
ModuleNotFound == RuntimeError(<< "Module not found" >>)
UnexpectedResponse == RuntimeError(<< "Unexpected response from the worker" >>)
WorkerThreadPanicked == RuntimeError(<< "Worker thread panicked" >>)
CouldNotStart == << "Could not start runtime thread" >>
\* Errors that come out of the engine and of serde_json (opaque here).
EngineError == << "JsError", "engine failure" >>
InitError == << "Runtime", "engine construction failed" >>
DecodeError == << "JsonDecode", "invalid type" >>

\* Panic payloads of the background thread: text (a sequence of tokens,
\* "Stack backtrace" being the marker) or a payload that is not text.
NotText == << "<non-text payload>" >>
UnwrapPayload == << "called Result::unwrap() on an Err value" >>
EnginePayloads ==
    { NotText,
      << "boom" >>,
      << " ", "boom", "\n", "Stack backtrace", "\n", "0: frame" >> }
NoPayload == << >>

\* ------------------------------------------------------ channel semantics
\* A sender's send succeeds exactly while the receiving end is alive.
ChanSendPrepend(ch, m) == << m >> \o ch
ChanSend(ch, m) == Append(ch, m)

\* The background thread runs from spawn until it returned or panicked; it
\* owns qrx, rtx and itx for exactly that time.
\* thread: "none" (not spawned), "init" (constructing the runtime), "recv"
\* (in rx.recv()), "exec" (handling the dequeued Query), "hung" (inside an
\* engine call that never returns), "exiting" (returning from the closure),
\* "unwinding" (a panic has dropped the thread's locals, the thread has not
\* yet terminated), "done", "panicked".
ThreadTerminated == thread \in {"done", "panicked"}
ThreadOwnsEndpoints == thread \in {"init", "recv", "exec", "exiting", "hung"}

\* The caller holds the InnerWorker (qtx, rrx, handle) in these positions:
\* from its construction in new_inner until it is consumed or dropped.
\* callerPc: "start", "new_wait" (in init_rx.recv()), "new_join" (joining a
\* thread that died before signalling), "idle" (holds the worker),
\* "call_recv" / "raw_recv" (in receive()), "stop_join" / "join_wait" (in
\* handle.join()), "finished" (worker consumed), "dropped".
WorkerHeld == callerPc \in {"new_wait", "new_join", "idle", "call_recv",
                            "raw_recv", "stop_join", "join_wait"}

QueryRxAlive == ThreadOwnsEndpoints
RespTxAlive == ThreadOwnsEndpoints
InitTxAliveLeaked == thread # "none"
InitTxAlive == ThreadOwnsEndpoints
QueryTxAliveUntilJoin ==
    callerPc \in {"new_wait", "new_join", "idle", "call_recv", "raw_recv"}
QueryTxAlive == WorkerHeld
RespRxAlive == WorkerHeld
InitRxAlive == callerPc \in {"new_wait", "new_join"}

\* Error text of a failed send / receive: e.to_string() of the channel's
\* error (sync), tokio's SendError text and "Channel closed" (async).
SendClosed(a) ==
    IF a = "sync" THEN RuntimeError(<< "sending on a closed channel" >>)
    ELSE RuntimeError(<< "channel closed" >>)
RecvClosed(a) ==
    IF a = "sync" THEN RuntimeError(<< "receiving on a closed channel" >>)
    ELSE RuntimeError(<< "Channel closed" >>)
ChannelClosedErrors == {SendClosed(a) : a \in Adapters} \cup
                       {RecvClosed(a) : a \in Adapters}

\* recv() on a channel: a queued message if there is one, else an error once
\* every sender is gone, else the receiver blocks.
RecvReadyTimesOut(ch, txAlive) == TRUE
RecvReady(ch, txAlive) == ch # << >> \/ ~txAlive
RecvIsMessage(ch) == ch # << >>

\* ------------------------------------------------------- panic sanitizing
\* e.split("Stack backtrace").next(): the text before the first marker.
RECURSIVE SplitBeforeMarker(_)
SplitBeforeMarker(s) ==
    IF s = << >> \/ Head(s) = "Stack backtrace" THEN << >>
    ELSE << Head(s) >> \o SplitBeforeMarker(Tail(s))

IsSpace(t) == t \in {" ", "\n"}

RECURSIVE TrimStart(_)
TrimStart(s) ==
    IF s # << >> /\ IsSpace(Head(s)) THEN TrimStart(Tail(s)) ELSE s

RECURSIVE TrimEnd(_)
TrimEnd(s) ==
    IF s # << >> /\ IsSpace(s[Len(s)])
    THEN TrimEnd(SubSeq(s, 1, Len(s) - 1)) ELSE s

TrimLeadingOnly(s) == TrimStart(s)
Trim(s) == TrimEnd(TrimStart(s))

\* The message new_inner builds from the joined thread's outcome: the payload
\* if the thread panicked with text, else the generic message; then cut at
\* the marker and trimmed.
StartupPanicMessage(terminatedBy, payload) ==
    LET text == IF terminatedBy = "panicked" /\ payload # NotText
                THEN payload ELSE CouldNotStart
    IN Trim(SplitBeforeMarker(text))

\* InnerWorker::join: Err("Worker thread panicked") iff the thread panicked.
JoinResultAlwaysOk(terminatedBy) == OkResult(0)
JoinResultStartupMessage(terminatedBy) ==
    IF terminatedBy = "panicked" THEN ErrResult(RuntimeError(CouldNotStart))
    ELSE OkResult(0)
JoinResult(terminatedBy) ==
    IF terminatedBy = "panicked" THEN ErrResult(WorkerThreadPanicked)
    ELSE OkResult(0)

\* handle.join() returns once the thread has terminated.
JoinReadyNoWait(t) == TRUE
JoinReady(t) == t \in {"done", "panicked"}

\* ------------------------------------------------------------------- Init
\* The tasks that may share one cooperative worker: none has called yet.
Tasks == {1, 2}
TaskInit ==
    /\ taskPc = [t \in Tasks |-> "idle"]
    /\ taskOp = [t \in Tasks |-> "none"]
    /\ taskIdx = [t \in Tasks |-> 0]
    /\ taskGot = [t \in Tasks |-> 0]
    /\ taskResult = [t \in Tasks |-> NoResult]
    /\ rxLock = 0
    /\ extLock = 0

ProgramInit ==
    /\ adapter \in Adapters
    /\ callerPc = "start"
    /\ thread = "none"
    /\ initChan = << >>
    /\ queryChan = << >>
    /\ respChan = << >>
    /\ cur = NoQuery
    /\ modules = {}
    /\ nextId = 1
    /\ panicPayload = NoPayload
    /\ newResult = NoResult
    /\ callOp = "none"
    /\ callResult = NoResult
    /\ rawResult = NoResult
    /\ stopResult = NoResult
    /\ joinResult = NoResult
    /\ sentLog = << >>
    /\ respLog = << >>
    /\ initLog = << >>
    /\ lastExec = 0
    /\ lastOutcome = "none"
    /\ lastOp = "none"
    /\ nDequeued = 0
    /\ callIdx = 0
    /\ callAfterStop = FALSE
    /\ stopIdx = 0
    /\ stopIdle = FALSE
    /\ TaskInit

\* No utility is being called.
NoUtil == [fn |-> "none"]

Init == ProgramInit /\ traced = FALSE /\ util = NoUtil

callerVars == << callerPc, newResult, callOp, callResult, rawResult,
                 stopResult, joinResult, callIdx, callAfterStop, stopIdx,
                 stopIdle >>
engineVars == << modules, nextId, lastExec, lastOutcome, lastOp >>

\* ------------------------------------------------------ background thread
\* The outcomes of a call into the engine (crate::Runtime, external).
EngineOutcomes == {"Ok", "Err", "Panic", "Hang"}
CtorOutcomes == {"Ok", "Err", "Panic"}

\* The Engine's module ids (crate::Runtime is not part of the sources at
\* hand): a Handle Id is minted by the Engine when a module is loaded and is
\* never issued twice; `nid` is the next id not yet issued.
EngineModuleIdReissued(nid) == IF nid > 1 THEN nid - 1 ELSE nid
EngineModuleId(nid) == nid
EngineNextId(q, outcome, nid) ==
    IF q.kind \in {"LoadMainModule", "LoadModule"} /\ outcome = "Ok"
    THEN nid + 1 ELSE nid

\* Where the spawned closure goes after its handshake signal: on to
\* Self::thread's loop after None, `return` after Some(e).
ClosureAfterSignalNoReturn(signal) == "recv"
ClosureAfterSignal(signal) ==
    IF signal = "Ready" THEN "recv" ELSE "exiting"

\* The thread panics: unwinding drops qrx, rtx and itx; the thread terminates
\* afterwards (ThreadUnwound).
Panics(payload) ==
    /\ thread' = "unwinding"
    /\ panicPayload' = payload
    /\ cur' = NoQuery

\* The closure given to spawn, up to the handshake: construct the runtime,
\* then signal None (ready) or Some(e) on the init channel.  sync: both sends
\* are unwrap()ed; async: the ready signal is unwrap()ed in thread(), the
\* error signal's result is discarded.
ThreadInit ==
    /\ thread = "init"
    /\ \E outcome \in CtorOutcomes :
         CASE outcome = "Ok" ->
                IF InitRxAlive
                THEN /\ initChan' = ChanSend(initChan, "Ready")
                     /\ initLog' = Append(initLog, "Ready")
                     /\ thread' = ClosureAfterSignal("Ready")
                     /\ UNCHANGED << panicPayload, cur >>
                ELSE /\ Panics(UnwrapPayload)
                     /\ UNCHANGED << initChan, initLog >>
           [] outcome = "Err" ->
                IF InitRxAlive
                THEN /\ initChan' = ChanSend(initChan, "InitError")
                     /\ initLog' = Append(initLog, "InitError")
                     /\ thread' = ClosureAfterSignal("InitError")
                     /\ UNCHANGED << panicPayload, cur >>
                ELSE IF adapter = "sync"
                     THEN /\ Panics(UnwrapPayload)
                          /\ UNCHANGED << initChan, initLog >>
                     ELSE /\ thread' = ClosureAfterSignal("InitError")
                          /\ UNCHANGED << initChan, initLog, panicPayload,
                                          cur >>
           [] outcome = "Panic" ->
                /\ \E p \in EnginePayloads : Panics(p)
                /\ UNCHANGED << initChan, initLog >>
    /\ UNCHANGED << traced, util, taskVars, adapter, queryChan, respChan, engineVars, callerVars,
                    sentLog, respLog, nDequeued >>

\* rx.recv() returned a Query: the dispatcher now handles it.
ThreadRecvWhileBusy ==
    /\ thread \in {"recv", "exec"}
    /\ RecvIsMessage(queryChan)
    /\ cur' = Head(queryChan)
    /\ queryChan' = Tail(queryChan)
    /\ nDequeued' = nDequeued + 1
    /\ thread' = "exec"
    /\ UNCHANGED << traced, util, taskVars, adapter, initChan, respChan, engineVars,
                    panicPayload, callerVars, sentLog, respLog, initLog >>
ThreadRecv ==
    /\ thread = "recv"
    /\ RecvIsMessage(queryChan)
    /\ cur' = Head(queryChan)
    /\ queryChan' = Tail(queryChan)
    /\ nDequeued' = nDequeued + 1
    /\ thread' = "exec"
    /\ UNCHANGED << traced, util, taskVars, adapter, initChan, respChan, engineVars, panicPayload,
                    callerVars, sentLog, respLog, initLog >>

\* rx.recv() failed: every Query sender is gone and nothing is queued.  The
\* loop ends without a Response.
ThreadRecvClosed ==
    /\ thread = "recv"
    /\ ~RecvIsMessage(queryChan)
    /\ ~QueryTxAlive
    /\ thread' = "exiting"
    /\ UNCHANGED << traced, util, taskVars, adapter, initChan, queryChan, respChan, cur, engineVars,
                    panicPayload, callerVars, sentLog, respLog, initLog,
                    nDequeued >>

\* Does handle_query call into the engine for this Query?  Stop never does;
\* a Query naming a module id that is not in the table returns early.
InvokesEngineIgnoresTable(q, mods) == q.kind # "Stop"
InvokesEngine(q, mods) ==
    CASE q.kind \in {"Eval", "LoadMainModule", "LoadModule"} -> TRUE
      [] q.kind = "CallEntrypoint" -> q.id \in mods
      [] q.kind \in {"CallFunction", "GetValue"} -> q.id = 0 \/ q.id \in mods
      [] OTHER -> FALSE

\* The method of the runtime that handle_query calls for each Query variant.
RuntimeOp(kind) ==
    CASE kind = "Eval" -> "eval"
      [] kind = "LoadMainModule" -> "load_module"
      [] kind = "LoadModule" -> "load_module"
      [] kind = "CallEntrypoint" -> "call_entrypoint"
      [] kind = "CallFunction" -> "call_function"
      [] kind = "GetValue" -> "get_value"
      [] OTHER -> "none"

\* handle_query's Response, given how the engine call (if any) ended.
HandleQueryIgnoresFailure(q, outcome, nid, mods) ==
    CASE q.kind = "Stop" -> Response("Ok", 0, NoError, q.q)
      [] q.kind \in {"LoadMainModule", "LoadModule"} ->
            Response("ModuleId", nid, NoError, q.q)
      [] q.kind = "CallEntrypoint" /\ q.id \notin mods ->
            Response("Error", 0, ModuleNotFound, q.q)
      [] q.kind \in {"CallFunction", "GetValue"} /\ q.id # 0
           /\ q.id \notin mods ->
            Response("Error", 0, ModuleNotFound, q.q)
      [] OTHER -> Response("Value", 0, NoError, q.q)
HandleQueryLoadsAsValue(q, outcome, nid, mods) ==
    CASE q.kind = "Stop" -> Response("Ok", 0, NoError, q.q)
      [] ~InvokesEngine(q, mods) -> Response("Error", 0, ModuleNotFound, q.q)
      [] outcome = "Err" -> Response("Error", 0, EngineError, q.q)
      [] OTHER -> Response("Value", nid, NoError, q.q)
HandleQuery(q, outcome, nid, mods) ==
    CASE q.kind = "Stop" -> Response("Ok", 0, NoError, q.q)
      [] ~InvokesEngine(q, mods) -> Response("Error", 0, ModuleNotFound, q.q)
      [] outcome = "Err" -> Response("Error", 0, EngineError, q.q)
      [] q.kind \in {"LoadMainModule", "LoadModule"} ->
            Response("ModuleId", nid, NoError, q.q)
      [] OTHER -> Response("Value", 0, NoError, q.q)

\* modules.insert(id, handle) after a successful load.
HandleQueryModulesOnFailure(q, outcome, nid, mods) ==
    IF q.kind \in {"LoadMainModule", "LoadModule"}
    THEN mods \cup {nid} ELSE mods
HandleQueryModules(q, outcome, nid, mods) ==
    IF q.kind \in {"LoadMainModule", "LoadModule"} /\ outcome = "Ok"
    THEN mods \cup {nid} ELSE mods

\* tx.send(response): sync unwrap()s the result, async logs the error and
\* leaves the loop.  `next` is where the loop goes after a successful send.
SendResponse(r, next) ==
    IF RespRxAlive
    THEN /\ respChan' = ChanSend(respChan, r)
         /\ respLog' = Append(respLog, r)
         /\ thread' = next
         /\ cur' = NoQuery
         /\ UNCHANGED panicPayload
    ELSE /\ UNCHANGED << respChan, respLog >>
         /\ IF adapter = "sync"
            THEN Panics(UnwrapPayload)
            ELSE /\ thread' = "exiting"
                 /\ cur' = NoQuery
                 /\ UNCHANGED panicPayload

\* sync thread(): a dequeued Stop is answered with Ok(()) and ends the loop.
ThreadStop ==
    /\ thread = "exec"
    /\ adapter = "sync"
    /\ cur.kind = "Stop"
    /\ SendResponse(Response("Ok", 0, NoError, cur.q), "exiting")
    /\ UNCHANGED << traced, util, taskVars, adapter, initChan, queryChan, engineVars, callerVars,
                    sentLog, initLog, nDequeued >>

\* handle_query on the dequeued Query, then tx.send(response); the loop goes
\* on.  async thread() takes this path for Stop as well.
ThreadHandleWith(outcomes) ==
    /\ thread = "exec"
    /\ adapter = "sync" => cur.kind # "Stop"
    /\ \E outcome \in outcomes :
         /\ ~InvokesEngine(cur, modules) => outcome = "Ok"
         /\ lastExec' = IF InvokesEngine(cur, modules) THEN cur.q
                        ELSE lastExec
         /\ lastOutcome' = IF InvokesEngine(cur, modules) THEN outcome
                           ELSE lastOutcome
         /\ lastOp' = IF traced /\ InvokesEngine(cur, modules)
                      THEN RuntimeOp(cur.kind) ELSE lastOp
         /\ CASE outcome = "Panic" ->
                   /\ \E p \in EnginePayloads : Panics(p)
                   /\ UNCHANGED << respChan, respLog, modules, nextId >>
              [] outcome = "Hang" ->
                   /\ thread' = "hung"
                   /\ UNCHANGED << respChan, respLog, modules, nextId, cur,
                                   panicPayload >>
              [] OTHER ->
                   /\ modules' = HandleQueryModules(cur, outcome,
                                                    EngineModuleId(nextId),
                                                    modules)
                   /\ nextId' = EngineNextId(cur, outcome, nextId)
                   /\ SendResponse(HandleQuery(cur, outcome,
                                               EngineModuleId(nextId),
                                               modules),
                                   "recv")
    /\ UNCHANGED << traced, util, taskVars, adapter, initChan, queryChan, callerVars, sentLog,
                    initLog, nDequeued >>

\* The thread function returns: qrx, rtx and itx are dropped.
ThreadExit ==
    /\ thread = "exiting"
    /\ thread' = "done"
    /\ UNCHANGED << traced, util, taskVars, adapter, initChan, queryChan, respChan, cur, engineVars,
                    panicPayload, callerVars, sentLog, respLog, initLog,
                    nDequeued >>

\* The panic has unwound the closure: the thread terminates and its
\* JoinHandle reports the panic.
ThreadUnwound ==
    /\ thread = "unwinding"
    /\ thread' = "panicked"
    /\ UNCHANGED << traced, util, taskVars, adapter, initChan, queryChan, respChan, cur, engineVars,
                    panicPayload, callerVars, sentLog, respLog, initLog,
                    nDequeued >>

ThreadHandle == ThreadHandleWith(EngineOutcomes)

\* ------------------------------------------------------------- the caller
HasStop(log) == \E i \in 1..Len(log) : log[i] = "Stop"
FirstStop(log) ==
    IF HasStop(log)
    THEN CHOOSE i \in 1..Len(log) :
            log[i] = "Stop" /\ \A j \in 1..(i - 1) : log[j] # "Stop"
    ELSE 0

\* new_inner up to the spawn: the three channels are created, the thread is
\* spawned and the InnerWorker is built; the caller then waits on init_rx.
New ==
    /\ callerPc = "start"
    /\ thread' = "init"
    /\ callerPc' = "new_wait"
    /\ UNCHANGED << traced, util, taskVars, adapter, initChan, queryChan, respChan, cur, engineVars,
                    panicPayload, newResult, callOp, callResult, rawResult,
                    stopResult, joinResult, callIdx, callAfterStop, stopIdx,
                    stopIdle, sentLog, respLog, initLog, nDequeued >>

\* new_inner's match on the signal received from init_rx.
NewResultOfAlwaysOk(signal) == OkResult(0)
NewResultOf(signal) ==
    IF signal = "Ready" THEN OkResult(0) ELSE ErrResult(InitError)

\* init_rx.recv() returns: Ok(None) -> Ok(worker); Ok(Some(e)) -> Err(e) and
\* the worker (with its JoinHandle) is dropped; channel closed -> go on to
\* join the thread.
NewRecvInit ==
    /\ callerPc = "new_wait"
    /\ RecvReady(initChan, InitTxAlive)
    /\ IF RecvIsMessage(initChan)
       THEN /\ initChan' = Tail(initChan)
            /\ newResult' = NewResultOf(Head(initChan))
            /\ callerPc' = IF newResult'.tag = "Ok" THEN "idle"
                           ELSE "finished"
       ELSE /\ callerPc' = "new_join"
            /\ UNCHANGED << initChan, newResult >>
    /\ UNCHANGED << traced, util, taskVars, adapter, thread, queryChan, respChan, cur, engineVars,
                    panicPayload, callOp, callResult, rawResult, stopResult,
                    joinResult, callIdx, callAfterStop, stopIdx, stopIdle,
                    sentLog, respLog, initLog, nDequeued >>

\* "Parser crashed on startup": worker.handle.join(), then the sanitized
\* message.
NewJoin ==
    /\ callerPc = "new_join"
    /\ JoinReady(thread)
    /\ newResult' = ErrResult(RuntimeError(
                        StartupPanicMessage(thread, panicPayload)))
    /\ callerPc' = "finished"
    /\ UNCHANGED << traced, util, taskVars, adapter, thread, initChan, queryChan, respChan, cur,
                    engineVars, panicPayload, callOp, callResult, rawResult,
                    stopResult, joinResult, callIdx, callAfterStop, stopIdx,
                    stopIdle, sentLog, respLog, initLog, nDequeued >>

\* The Response tag an adapter operation decodes into its result.
ExpectedTag(op) ==
    IF op \in {"LoadMainModule", "LoadModule"} THEN "ModuleId" ELSE "Value"

\* The match in eval / load_main_module / ... on the Response received;
\* decodeOk: whether serde_json::from_value succeeds for the caller's T.
DecodeUnwraps(op, r, decodeOk) ==
    CASE r.tag = "Error" -> ErrResult(r.e)
      [] r.tag = "ModuleId" /\ op \in {"LoadMainModule", "LoadModule"} ->
            OkResult(r.id)
      [] r.tag = "Value" /\ op \notin {"LoadMainModule", "LoadModule"} ->
            IF decodeOk THEN OkResult(0)
            ELSE [tag |-> "Panic", e |-> DecodeError, id |-> 0]
      [] OTHER -> ErrResult(UnexpectedResponse)
DecodeCoerces(op, r, decodeOk) ==
    IF r.tag = "Error" THEN ErrResult(r.e) ELSE OkResult(r.id)
Decode(op, r, decodeOk) ==
    CASE r.tag = "Error" -> ErrResult(r.e)
      [] r.tag = ExpectedTag(op) /\ r.tag = "ModuleId" -> OkResult(r.id)
      [] r.tag = ExpectedTag(op) /\ r.tag = "Value" ->
            IF decodeOk THEN OkResult(0) ELSE ErrResult(DecodeError)
      [] OTHER -> ErrResult(UnexpectedResponse)

\* receive(): what the caller's recv() on the Response channel returns when
\* the channel is empty and every sender is gone.
ReceiveClosedUnwraps(a) == [tag |-> "Panic", e |-> RecvClosed(a), id |-> 0]
ReceiveClosed(a) == ErrResult(RecvClosed(a))

\* An adapter operation, first half: send_and_await's send(query)?.  (The
\* sync operations call send_and_await_sync, which worker.rs does not define;
\* it is taken to be the adapter's one send-then-receive, send_and_await.)
Call ==
    /\ callerPc = "idle"
    /\ \E op \in OpKinds : \E id \in IdArgs(op) :
         /\ callOp' = op
         /\ callAfterStop' = HasStop(sentLog)
         /\ IF QueryRxAlive
            THEN /\ Len(sentLog) < MaxSends
                 /\ queryChan' = ChanSend(queryChan,
                                          Query(op, id, Len(sentLog) + 1))
                 /\ sentLog' = Append(sentLog, "Op")
                 /\ callIdx' = Len(sentLog) + 1
                 /\ callResult' = NoResult
                 /\ callerPc' = "call_recv"
            ELSE /\ callResult' = ErrResult(SendClosed(adapter))
                 /\ callIdx' = 0
                 /\ UNCHANGED << queryChan, sentLog, callerPc >>
    /\ UNCHANGED << traced, util, taskVars, adapter, thread, initChan, respChan, cur, engineVars,
                    panicPayload, newResult, rawResult, stopResult,
                    joinResult, stopIdx, stopIdle, respLog, initLog,
                    nDequeued >>

\* An adapter operation, second half: receive() and the match on it.
CallRecv ==
    /\ callerPc = "call_recv"
    /\ RecvReady(respChan, RespTxAlive)
    /\ IF RecvIsMessage(respChan)
       THEN /\ respChan' = Tail(respChan)
            /\ \E decodeOk \in BOOLEAN :
                 /\ (Head(respChan).tag # "Value"
                       \/ ExpectedTag(callOp) # "Value") => decodeOk
                 /\ callResult' = Decode(callOp, Head(respChan), decodeOk)
       ELSE /\ callResult' = ReceiveClosed(adapter)
            /\ UNCHANGED respChan
    /\ callerPc' = "idle"
    /\ UNCHANGED << traced, util, taskVars, adapter, thread, initChan, queryChan, cur, engineVars,
                    panicPayload, newResult, callOp, rawResult, stopResult,
                    joinResult, callIdx, callAfterStop, stopIdx, stopIdle,
                    sentLog, respLog, initLog, nDequeued >>

\* What a raw receive() hands back: the Response (its tag and module id).
RawOk(r) == [tag |-> "Ok", e |-> << r.tag >>, id |-> r.id]

\* The public send(query), not followed by a receive: any Query, Stop
\* included.
RawSend ==
    /\ callerPc = "idle"
    /\ \E kind \in OpKinds \cup {"Stop"} : \E id \in IdArgs(kind) :
         IF QueryRxAlive
         THEN /\ Len(sentLog) < MaxSends
              /\ queryChan' = ChanSend(queryChan,
                                       Query(kind, id, Len(sentLog) + 1))
              /\ sentLog' = Append(sentLog,
                                   IF kind = "Stop" THEN "Stop" ELSE "Op")
              /\ rawResult' = OkResult(0)
         ELSE /\ rawResult' = ErrResult(SendClosed(adapter))
              /\ UNCHANGED << queryChan, sentLog >>
    /\ UNCHANGED << traced, util, taskVars, adapter, callerPc, thread, initChan, respChan, cur,
                    engineVars, panicPayload, newResult, callOp, callResult,
                    stopResult, joinResult, callIdx, callAfterStop, stopIdx,
                    stopIdle, respLog, initLog, nDequeued >>

\* The public receive(): the caller starts waiting on the Response channel.
RawRecvBegin ==
    /\ callerPc = "idle"
    /\ callerPc' = "raw_recv"
    /\ UNCHANGED << traced, util, taskVars, adapter, thread, initChan, queryChan, respChan, cur,
                    engineVars, panicPayload, newResult, callOp, callResult,
                    rawResult, stopResult, joinResult, callIdx,
                    callAfterStop, stopIdx, stopIdle, sentLog, respLog,
                    initLog, nDequeued >>

\* The public receive() returns.
RawRecvEnd ==
    /\ callerPc = "raw_recv"
    /\ RecvReady(respChan, RespTxAlive)
    /\ IF RecvIsMessage(respChan)
       THEN /\ respChan' = Tail(respChan)
            /\ rawResult' = RawOk(Head(respChan))
       ELSE /\ rawResult' = ReceiveClosed(adapter)
            /\ UNCHANGED respChan
    /\ callerPc' = "idle"
    /\ UNCHANGED << traced, util, taskVars, adapter, thread, initChan, queryChan, cur, engineVars,
                    panicPayload, newResult, callOp, callResult, stopResult,
                    joinResult, callIdx, callAfterStop, stopIdx, stopIdle,
                    sentLog, respLog, initLog, nDequeued >>

\* stop(), first half: self.send(Stop)?.  A failed send returns the error
\* and drops the worker.
Stop ==
    /\ callerPc = "idle"
    /\ IF QueryRxAlive
       THEN /\ Len(sentLog) < MaxSends
            /\ queryChan' = ChanSend(queryChan,
                                     Query("Stop", 0, Len(sentLog) + 1))
            /\ sentLog' = Append(sentLog, "Stop")
            /\ stopIdx' = Len(sentLog) + 1
            /\ stopIdle' = (thread = "recv" /\ queryChan = << >>)
            /\ callerPc' = "stop_join"
            /\ UNCHANGED stopResult
       ELSE /\ stopResult' = ErrResult(SendClosed(adapter))
            /\ callerPc' = "finished"
            /\ UNCHANGED << queryChan, sentLog, stopIdx, stopIdle >>
    /\ UNCHANGED << traced, util, taskVars, adapter, thread, initChan, respChan, cur, engineVars,
                    panicPayload, newResult, callOp, callResult, rawResult,
                    joinResult, callIdx, callAfterStop, respLog, initLog,
                    nDequeued >>

\* stop(), second half: self.0.join() returns; the worker's qtx and rrx are
\* dropped when join() returns.
StopJoinAwaitsAck ==
    /\ callerPc = "stop_join"
    /\ RecvReady(respChan, RespTxAlive)
    /\ JoinReady(thread)
    /\ respChan' = IF RecvIsMessage(respChan) THEN Tail(respChan)
                   ELSE respChan
    /\ stopResult' = JoinResult(thread)
    /\ callerPc' = "finished"
    /\ UNCHANGED << traced, util, taskVars, adapter, thread, initChan, queryChan, cur,
                    engineVars, panicPayload, newResult, callOp, callResult,
                    rawResult, joinResult, callIdx, callAfterStop, stopIdx,
                    stopIdle, sentLog, respLog, initLog, nDequeued >>
StopJoin ==
    /\ callerPc = "stop_join"
    /\ JoinReady(thread)
    /\ stopResult' = JoinResult(thread)
    /\ callerPc' = "finished"
    /\ UNCHANGED << traced, util, taskVars, adapter, thread, initChan, queryChan, respChan, cur,
                    engineVars, panicPayload, newResult, callOp, callResult,
                    rawResult, joinResult, callIdx, callAfterStop, stopIdx,
                    stopIdle, sentLog, respLog, initLog, nDequeued >>

\* InnerWorker::join(self), called directly: the caller starts waiting for
\* the thread; no Stop is sent.
Join ==
    /\ callerPc = "idle"
    /\ callerPc' = "join_wait"
    /\ UNCHANGED << traced, util, taskVars, adapter, thread, initChan, queryChan, respChan, cur,
                    engineVars, panicPayload, newResult, callOp, callResult,
                    rawResult, stopResult, joinResult, callIdx,
                    callAfterStop, stopIdx, stopIdle, sentLog, respLog,
                    initLog, nDequeued >>

\* InnerWorker::join returns.
JoinEnd ==
    /\ callerPc = "join_wait"
    /\ JoinReady(thread)
    /\ joinResult' = JoinResult(thread)
    /\ callerPc' = "finished"
    /\ UNCHANGED << traced, util, taskVars, adapter, thread, initChan, queryChan, respChan, cur,
                    engineVars, panicPayload, newResult, callOp, callResult,
                    rawResult, stopResult, callIdx, callAfterStop, stopIdx,
                    stopIdle, sentLog, respLog, initLog, nDequeued >>

\* The worker goes out of scope without stop(): qtx, rrx and the JoinHandle
\* are dropped, the thread is detached.
Drop ==
    /\ callerPc = "idle"
    /\ callerPc' = "dropped"
    /\ UNCHANGED << traced, util, taskVars, adapter, thread, initChan, queryChan, respChan, cur,
                    engineVars, panicPayload, newResult, callOp, callResult,
                    rawResult, stopResult, joinResult, callIdx,
                    callAfterStop, stopIdx, stopIdle, sentLog, respLog,
                    initLog, nDequeued >>

\* ---------------------------------------------------------- specification
Next ==
    \/ New
    \/ NewRecvInit
    \/ NewJoin
    \/ Call
    \/ CallRecv
    \/ RawSend
    \/ RawRecvBegin
    \/ RawRecvEnd
    \/ Stop
    \/ StopJoin
    \/ Join
    \/ JoinEnd
    \/ Drop
    \/ ThreadInit
    \/ ThreadRecv
    \/ ThreadRecvClosed
    \/ ThreadStop
    \/ ThreadHandle
    \/ ThreadExit
    \/ ThreadUnwound

Spec == Init /\ [][Next]_vars

\* The same program with Engine operations that terminate (no call into the
\* engine hangs) under fair scheduling: the background thread keeps running
\* while it can take a step, and a caller blocked in recv() or join() resumes
\* once the call can return.  What the caller invokes next is never forced.
ThreadHandleTerm == ThreadHandleWith(EngineOutcomes \ {"Hang"})

ThreadStepTerm ==
    \/ ThreadInit
    \/ ThreadRecv
    \/ ThreadRecvClosed
    \/ ThreadStop
    \/ ThreadHandleTerm
    \/ ThreadExit
    \/ ThreadUnwound

CallerResumes ==
    \/ NewRecvInit
    \/ NewJoin
    \/ CallRecv
    \/ RawRecvEnd
    \/ StopJoin
    \/ JoinEnd

NextTerm ==
    \/ New
    \/ NewRecvInit
    \/ NewJoin
    \/ Call
    \/ CallRecv
    \/ RawSend
    \/ RawRecvBegin
    \/ RawRecvEnd
    \/ Stop
    \/ StopJoin
    \/ Join
    \/ JoinEnd
    \/ Drop
    \/ ThreadInit
    \/ ThreadRecv
    \/ ThreadRecvClosed
    \/ ThreadStop
    \/ ThreadHandleTerm
    \/ ThreadExit
    \/ ThreadUnwound

FairSpec ==
    /\ Init
    /\ [][NextTerm]_vars
    /\ WF_vars(ThreadStepTerm)
    /\ WF_vars(CallerResumes)

\* ------------------------------------------- tasks sharing a worker (async)
\* Tasks hold a shared reference to the async worker its owner keeps, and
\* call its adapter operations concurrently.  send_and_await is send(query)?
\* followed by receive().await; receive() locks the receiver's mutex, awaits
\* rx.recv() under the lock and releases the lock when it returns.
programVars == << adapter, callerPc, thread, initChan, cur, modules, nextId,
                  panicPayload, newResult, callOp, callResult, rawResult,
                  stopResult, joinResult, respLog, initLog, lastExec,
                  lastOutcome, lastOp, nDequeued, callIdx, callAfterStop, stopIdx,
                  stopIdle >>

\* send_and_await, first half: send(query)?; a failed send returns the
\* error.  `from` is where the task stands before the call.
TaskSendFrom(t, from) ==
    /\ adapter = "async"
    /\ callerPc = "idle"
    /\ taskPc[t] = from
    /\ \E op \in OpKinds : \E id \in IdArgs(op) :
         /\ taskOp' = [taskOp EXCEPT ![t] = op]
         /\ taskGot' = [taskGot EXCEPT ![t] = 0]
         /\ IF QueryRxAlive
            THEN /\ Len(sentLog) < MaxSends
                 /\ queryChan' = ChanSend(queryChan,
                                          Query(op, id, Len(sentLog) + 1))
                 /\ sentLog' = Append(sentLog, "Op")
                 /\ taskIdx' = [taskIdx EXCEPT ![t] = Len(sentLog) + 1]
                 /\ taskResult' = [taskResult EXCEPT ![t] = NoResult]
                 /\ taskPc' = [taskPc EXCEPT ![t] = "sent"]
            ELSE /\ taskResult' = [taskResult EXCEPT
                                      ![t] = ErrResult(SendClosed(adapter))]
                 /\ taskIdx' = [taskIdx EXCEPT ![t] = 0]
                 /\ taskPc' = [taskPc EXCEPT ![t] = "idle"]
                 /\ UNCHANGED << queryChan, sentLog >>
    /\ UNCHANGED << traced, util, programVars, respChan, rxLock, extLock >>

TaskSend(t) == TaskSendFrom(t, "idle")

\* receive(): self.0.rx.lock().await returns once the mutex is free.
TaskLockNoMutex(t) ==
    /\ taskPc[t] = "sent"
    /\ rxLock' = t
    /\ taskPc' = [taskPc EXCEPT ![t] = "locked"]
    /\ UNCHANGED << traced, util, programVars, queryChan, respChan, sentLog, taskOp,
                    taskIdx, taskGot, taskResult, extLock >>
TaskLock(t) ==
    /\ taskPc[t] = "sent"
    /\ rxLock = 0
    /\ rxLock' = t
    /\ taskPc' = [taskPc EXCEPT ![t] = "locked"]
    /\ UNCHANGED << traced, util, programVars, queryChan, respChan, sentLog, taskOp,
                    taskIdx, taskGot, taskResult, extLock >>

\* receive(): rx.recv().await returns under the lock; the guard is dropped
\* and the operation matches on what it got.
TaskRecv(t) ==
    /\ taskPc[t] = "locked"
    /\ RecvReady(respChan, RespTxAlive)
    /\ IF RecvIsMessage(respChan)
       THEN /\ respChan' = Tail(respChan)
            /\ taskGot' = [taskGot EXCEPT ![t] = Head(respChan).q]
            /\ \E decodeOk \in BOOLEAN :
                 /\ (Head(respChan).tag # "Value"
                       \/ ExpectedTag(taskOp[t]) # "Value") => decodeOk
                 /\ taskResult' = [taskResult EXCEPT
                                     ![t] = Decode(taskOp[t], Head(respChan),
                                                   decodeOk)]
       ELSE /\ taskResult' = [taskResult EXCEPT
                                 ![t] = ReceiveClosed(adapter)]
            /\ UNCHANGED << respChan, taskGot >>
    /\ rxLock' = 0
    /\ taskPc' = [taskPc EXCEPT ![t] = "idle"]
    /\ UNCHANGED << traced, util, programVars, queryChan, sentLog, taskOp, taskIdx,
                    extLock >>

\* The owner constructs the worker and keeps it while the tasks use it.
CoopNext ==
    \/ New
    \/ NewRecvInit
    \/ NewJoin
    \/ ThreadInit
    \/ ThreadRecv
    \/ ThreadHandle
    \/ ThreadExit
    \/ ThreadUnwound
    \/ \E t \in Tasks : TaskSend(t)
    \/ \E t \in Tasks : TaskLock(t)
    \/ \E t \in Tasks : TaskRecv(t)

CoopSpec == Init /\ [][CoopNext]_vars

\* The same tasks when each holds a lock of their own around every whole
\* call: acquire, send_and_await, release.
TaskAcquireNoMutex(t) ==
    /\ adapter = "async"
    /\ callerPc = "idle"
    /\ taskPc[t] = "idle"
    /\ extLock # t
    /\ extLock' = t
    /\ taskPc' = [taskPc EXCEPT ![t] = "held"]
    /\ UNCHANGED << traced, util, programVars, queryChan, respChan, sentLog, taskOp,
                    taskIdx, taskGot, taskResult, rxLock >>
TaskAcquire(t) ==
    /\ adapter = "async"
    /\ callerPc = "idle"
    /\ taskPc[t] = "idle"
    /\ extLock = 0
    /\ extLock' = t
    /\ taskPc' = [taskPc EXCEPT ![t] = "held"]
    /\ UNCHANGED << traced, util, programVars, queryChan, respChan, sentLog, taskOp,
                    taskIdx, taskGot, taskResult, rxLock >>

SerialSend(t) == TaskSendFrom(t, "held")

\* The call has returned: the task releases the callers' lock.
TaskRelease(t) ==
    /\ extLock = t
    /\ taskPc[t] = "idle"
    /\ extLock' = 0
    /\ UNCHANGED << traced, util, programVars, queryChan, respChan, sentLog, taskPc,
                    taskOp, taskIdx, taskGot, taskResult, rxLock >>

SerialNext ==
    \/ New
    \/ NewRecvInit
    \/ NewJoin
    \/ ThreadInit
    \/ ThreadRecv
    \/ ThreadHandle
    \/ ThreadExit
    \/ ThreadUnwound
    \/ \E t \in Tasks : TaskAcquire(t)
    \/ \E t \in Tasks : SerialSend(t)
    \/ \E t \in Tasks : TaskLock(t)
    \/ \E t \in Tasks : TaskRecv(t)
    \/ \E t \in Tasks : TaskRelease(t)

SerialSpec == Init /\ [][SerialNext]_vars

\* The owner alone calling the adapter operations, with the runtime method
\* behind each Engine operation recorded in lastOp.
TracedInit == ProgramInit /\ traced = TRUE /\ util = NoUtil

DispatchNext ==
    \/ New
    \/ NewRecvInit
    \/ NewJoin
    \/ Call
    \/ CallRecv
    \/ ThreadInit
    \/ ThreadRecv
    \/ ThreadHandle
    \/ ThreadExit
    \/ ThreadUnwound

DispatchSpec == TracedInit /\ [][DispatchNext]_vars

\* The construction panic on its own, over every panic text of bounded length:
\* the closure has panicked with the payload and unwinds, new() waits on the
\* init channel, then joins and builds its message.
PayloadTokens == {"boom", " ", "\n", "Stack backtrace"}
SeqsUpTo(S, n) == UNION {[1..k -> S] : k \in 0..n}
TextPayloads == SeqsUpTo(PayloadTokens, MaxPayloadLen)

PanicInit ==
    /\ adapter \in Adapters
    /\ callerPc = "new_wait"
    /\ thread = "unwinding"
    /\ panicPayload \in TextPayloads \cup {NotText}
    /\ initChan = << >>
    /\ queryChan = << >>
    /\ respChan = << >>
    /\ cur = NoQuery
    /\ modules = {}
    /\ nextId = 1
    /\ newResult = NoResult
    /\ callOp = "none"
    /\ callResult = NoResult
    /\ rawResult = NoResult
    /\ stopResult = NoResult
    /\ joinResult = NoResult
    /\ sentLog = << >>
    /\ respLog = << >>
    /\ initLog = << >>
    /\ lastExec = 0
    /\ lastOutcome = "none"
    /\ lastOp = "none"
    /\ nDequeued = 0
    /\ callIdx = 0
    /\ callAfterStop = FALSE
    /\ stopIdx = 0
    /\ stopIdle = FALSE
    /\ TaskInit
    /\ traced = FALSE
    /\ util = NoUtil

PanicNext ==
    \/ ThreadUnwound
    \/ NewRecvInit
    \/ NewJoin

PanicSpec == PanicInit /\ [][PanicNext]_vars

\* ------------------------------------------------- utilities: validate
\* What a call into the runtime can end with: success, or an Error of some
\* variant with some message.
ErrorKinds == {"Runtime", "JsError", "ModuleNotFound", "Timeout"}
UtilErrors == {<< k, m >> : k \in ErrorKinds, m \in {"m1", "m2"}}
UtilOutcomes == {[ok |-> TRUE, e |-> << >>]} \cup
                {[ok |-> FALSE, e |-> e] : e \in UtilErrors}

ValidateOk(b) == [tag |-> "Ok", value |-> b]
ValidateErr(e) == [tag |-> "Err", e |-> e]
ValidatePending == [tag |-> "none"]

\* validate's match on what runtime.load_modules(&module, vec![]) returned.
ValidateLoadResultAllInvalid(o) ==
    IF o.ok THEN [tag |-> "Ok", value |-> TRUE]
    ELSE [tag |-> "Ok", value |-> FALSE]
ValidateLoadResult(o) ==
    IF o.ok THEN ValidateOk(TRUE)
    ELSE IF o.e[1] \in {"Runtime", "JsError"} THEN ValidateOk(FALSE)
    ELSE ValidateErr(o.e)

\* validate(js) is called; `ctor` and `load` are how Runtime::new and the
\* load of the module made from js end for this js.
ValidateInit ==
    /\ ProgramInit
    /\ traced = FALSE
    /\ util \in [fn : {"validate"}, pc : {"start"}, ctor : UtilOutcomes,
                  load : UtilOutcomes, result : {ValidatePending}]

utilFrame == << traced, taskVars, programVars, queryChan, respChan,
               sentLog >>

\* let mut runtime = Runtime::new(Default::default())?;
ValidateNewRuntime ==
    /\ util.fn = "validate"
    /\ util.pc = "start"
    /\ util' = IF util.ctor.ok
               THEN [util EXCEPT !.pc = "created"]
               ELSE [util EXCEPT !.pc = "done",
                                 !.result = ValidateErr(util.ctor.e)]
    /\ UNCHANGED utilFrame

\* match runtime.load_modules(&module, vec![]) { .. }
ValidateLoad ==
    /\ util.fn = "validate"
    /\ util.pc = "created"
    /\ util' = [util EXCEPT !.pc = "done",
                            !.result = ValidateLoadResult(util.load)]
    /\ UNCHANGED utilFrame

ValidateNext ==
    \/ ValidateNewRuntime
    \/ ValidateLoad

ValidateSpec == ValidateInit /\ [][ValidateNext]_vars

\* ------------------------------------------------ utilities: callbacks
MaxParams == 2
MaxArgs == 3

\* An argument either decodes to the type of the parameter it is bound to
\* ("good") or does not ("bad").
ArgValues == {"good", "bad"}
ArgLists == SeqsUpTo(ArgValues, MaxArgs)

InvalidArgCount == << "Runtime", "Invalid number of arguments" >>
BodyError == << "JsError", "body failed" >>
EncodeError == << "Runtime", "cannot encode result" >>
\* A serde_json::Error's text.
ArgDecodeText == "invalid type"
\* The variant that Error's From<serde_json::Error> yields: the conversion
\* is the crate's, so both the dedicated variant and Runtime are kept.
FromSerdeKinds == {"JsonDecode", "Runtime"}

\* The parameters are bound in order, each from args.next(): the first
\* parameter that finds no argument, or an argument that does not decode,
\* ends the binding.
RECURSIVE BindArgs(_, _, _)
BindArgs(nParams, args, i) ==
    IF i > nParams THEN "bound"
    ELSE IF i > Len(args) THEN "missing"
    ELSE IF args[i] = "bad" THEN "undecodable"
    ELSE BindArgs(nParams, args, i + 1)

\* The count of the arguments is looked at before any of them is decoded.
RECURSIVE BindArgsCountFirst(_, _, _)
BindArgsCountFirst(nParams, args, i) ==
    IF Len(args) < nParams THEN "missing"
    ELSE IF i > nParams THEN "bound"
    ELSE IF args[i] = "bad" THEN "undecodable"
    ELSE BindArgsCountFirst(nParams, args, i + 1)

\* What the closure returns once the binding ended as `bound`: decodeErr is
\* the Error made of an argument's serde_json::Error.
CallbackResult(bound, decodeErr, body, encodes) ==
    CASE bound = "missing" -> [tag |-> "Err", e |-> InvalidArgCount, ran |-> FALSE]
      [] bound = "undecodable" -> [tag |-> "Err", e |-> decodeErr, ran |-> FALSE]
      [] OTHER ->
            IF ~body THEN [tag |-> "Err", e |-> BodyError, ran |-> TRUE]
            ELSE IF ~encodes THEN [tag |-> "Err", e |-> EncodeError, ran |-> TRUE]
            ELSE [tag |-> "Ok", e |-> << >>, ran |-> TRUE]

\* The sync callback, were the count looked at first.
SyncCallbackCountFirst(u) ==
    CallbackResult(BindArgsCountFirst(u.nParams, u.args, 1),
                   << u.fromKind, ArgDecodeText >>, u.body, u.encodes)

\* sync_callback!: from_value(arg.clone())? turns the serde_json::Error into
\* an Error through From; fromKind is the variant that conversion yields.
SyncCallback(u) ==
    CallbackResult(BindArgs(u.nParams, u.args, 1),
                   << u.fromKind, ArgDecodeText >>, u.body, u.encodes)

\* async_callback!: from_value(arg.clone()).map_err(|e|
\* Error::Runtime(e.to_string()))?
AsyncCallback(u) ==
    CallbackResult(BindArgs(u.nParams, u.args, 1),
                   << "Runtime", ArgDecodeText >>, u.body, u.encodes)

CallbackPending == [tag |-> "none"]

\* One parameter list and body (whether the body succeeds, whether its
\* result encodes) given to both macros, and one argument list.
CallbackInit ==
    /\ ProgramInit
    /\ traced = FALSE
    /\ util \in [fn : {"callback"}, nParams : 0..MaxParams, args : ArgLists,
                  body : BOOLEAN, encodes : BOOLEAN, fromKind : FromSerdeKinds,
                  sync : {CallbackPending}, async : {CallbackPending}]

CallSyncCallback ==
    /\ util.fn = "callback"
    /\ util.sync = CallbackPending
    /\ util' = [util EXCEPT !.sync = SyncCallback(util)]
    /\ UNCHANGED utilFrame

CallAsyncCallback ==
    /\ util.fn = "callback"
    /\ util.async = CallbackPending
    /\ util' = [util EXCEPT !.async = AsyncCallback(util)]
    /\ UNCHANGED utilFrame

CallbackNext ==
    \/ CallSyncCallback
    \/ CallAsyncCallback

CallbackSpec == CallbackInit /\ [][CallbackNext]_vars

\* --------------------------------------------------- abandoned operations
\* The future of an async adapter operation is dropped while it awaits in
\* receive(): the Query has been sent, its Response is left to whoever
\* receives next.
CallAbandon ==
    /\ adapter = "async"
    /\ callerPc = "call_recv"
    /\ callerPc' = "idle"
    /\ UNCHANGED << traced, util, taskVars, adapter, thread, initChan,
                    queryChan, respChan, cur, engineVars, panicPayload,
                    newResult, callOp, callResult, rawResult, stopResult,
                    joinResult, callIdx, callAfterStop, stopIdx, stopIdle,
                    sentLog, respLog, initLog, nDequeued >>

\* One caller that uses adapter operations, raw sends and abandons.
CancelNext ==
    \/ New
    \/ NewRecvInit
    \/ NewJoin
    \/ Call
    \/ CallRecv
    \/ CallAbandon
    \/ RawSend
    \/ ThreadInit
    \/ ThreadRecv
    \/ ThreadHandle
    \/ ThreadExit
    \/ ThreadUnwound

CancelSpec == Init /\ [][CancelNext]_vars

\* ------------------------------------------------- construction, fairly
\* The constructor followed by adapter operations run to completion, with
\* Engine operations that terminate and fair scheduling of the background
\* thread and of the caller's blocked recv() / join().
StartupNext ==
    \/ New
    \/ NewRecvInit
    \/ NewJoin
    \/ Call
    \/ CallRecv
    \/ ThreadInit
    \/ ThreadRecv
    \/ ThreadHandleTerm
    \/ ThreadExit
    \/ ThreadUnwound

StartupThreadStep ==
    \/ ThreadInit
    \/ ThreadRecv
    \/ ThreadHandleTerm
    \/ ThreadExit
    \/ ThreadUnwound

StartupCallerResumes ==
    \/ NewRecvInit
    \/ NewJoin
    \/ CallRecv

StartupFairSpec ==
    /\ Init
    /\ [][StartupNext]_vars
    /\ WF_vars(StartupThreadStep)
    /\ WF_vars(StartupCallerResumes)

\* ================================================================ claims
\* The dispatcher is idle: it waits in rx.recv() on an empty Query channel, or
\* it has left its loop, while the caller still holds the worker.
DispatcherQuiescent ==
    /\ WorkerHeld
    /\ \/ thread = "recv" /\ queryChan = << >>
       \/ thread \in {"exiting", "done"}

\* The Queries sent up to and including the first Stop (all, without a Stop).
SentBeforeStop ==
    IF HasStop(sentLog) THEN FirstStop(sentLog) ELSE Len(sentLog)

\* C1: FIFO pairing.  The Responses put on the Response channel answer the
\* Queries in the order they were sent, one Response per Query: the i-th
\* Response is the one produced for the i-th Query, it is Ok(()) exactly when
\* that Query is Stop, and once the dispatcher is idle every Query sent up to
\* and including the first Stop has its Response.
C1_FifoPairing ==
    /\ Len(respLog) <= Len(sentLog)
    /\ \A i \in 1..Len(respLog) :
         /\ respLog[i].q = i
         /\ respLog[i].tag = "Ok" <=> sentLog[i] = "Stop"
    /\ DispatcherQuiescent => Len(respLog) >= SentBeforeStop

\* Two Queries were queued together, an operation then a Stop, and both are
\* answered.
C1_Witness ==
    /\ DispatcherQuiescent
    /\ sentLog = << "Op", "Stop" >>
    /\ Len(respLog) = 2
    /\ nDequeued = 2
    /\ callIdx = 0

\* C2: once the dispatcher has dequeued a Stop it runs no Engine operation
\* for, and emits no Response to, a Query queued after that Stop.
C2_NothingAfterStop ==
    (HasStop(sentLog) /\ nDequeued >= FirstStop(sentLog)) =>
        /\ lastExec < FirstStop(sentLog)
        /\ Len(respLog) <= FirstStop(sentLog)

\* C3: stop() called while the dispatcher is idle, and join() called after a
\* Stop was sent, eventually return (fair scheduling, terminating Engine
\* operations).
C3_StopReturns ==
    [](((callerPc = "stop_join" /\ stopIdle)
          \/ (callerPc = "join_wait" /\ HasStop(sentLog)))
       => <>(callerPc = "finished"))

\* C4: whenever stop() has returned Ok, the background thread has terminated
\* without a panic and its Query receiver is gone (a send would fail).
C4_StopOkThreadGone ==
    stopResult.tag = "Ok" => thread = "done" /\ ~QueryRxAlive

\* stop() returned Ok after the dispatcher answered an operation and the Stop.
C4_Witness ==
    /\ stopResult.tag = "Ok"
    /\ stopIdx = 2
    /\ Len(respLog) = 2

\* The Ack of stop()'s own Stop is still queued on the Response channel.
StopAckUnread == \E i \in 1..Len(respChan) : respChan[i].q = stopIdx

\* C5 as stated: when stop() has returned, the Ack of its Stop has been
\* received and is not left unread on the Response channel.
C5_AckConsumed ==
    (stopResult.tag = "Ok" /\ stopIdx > 0) => ~StopAckUnread

\* C5 as amended: stop() sends Stop and joins without receiving.  When it has
\* returned Ok, the Ack emitted for its Stop is still unread on the Response
\* channel, and that Ack was emitted whenever its Stop was the first one sent.
C5_AckLeftUnread ==
    (stopResult.tag = "Ok" /\ stopIdx > 0) =>
        /\ stopIdx <= Len(respLog) => StopAckUnread
        /\ FirstStop(sentLog) = stopIdx => stopIdx <= Len(respLog)

\* stop() returned Ok and the only Response left unread is its Stop's Ack.
C5_Witness ==
    /\ stopResult.tag = "Ok"
    /\ Len(respChan) = 1
    /\ respChan[1].q = stopIdx
    /\ respChan[1].tag = "Ok"

\* C6: an adapter operation invoked after a Stop was sent on the worker
\* returns a channel-closed error.
C6_ClosedAfterStop ==
    (callAfterStop /\ callResult.tag # "none") =>
        /\ callResult.tag = "Err"
        /\ callResult.e \in ChannelClosedErrors

\* An adapter call waits for its Response on an empty Response channel.
CallWaiting == callerPc = "call_recv" /\ respChan = << >>

\* The dispatcher thread has panicked: its endpoints are gone, whether or not
\* the thread has terminated yet.
ThreadCrashed == thread \in {"unwinding", "panicked"}

\* C7: when the dispatcher thread has panicked while an adapter call waits
\* for its Response, the call does not stay blocked (its receive can return)
\* and what it returns is the channel-closed Err, in both adapters.
C7_PanicInFlight ==
    /\ []((CallWaiting /\ ThreadCrashed) => ENABLED CallRecv)
    /\ [][(CallWaiting /\ ThreadCrashed /\ callerPc' # "call_recv")
            => callResult' = ErrResult(RecvClosed(adapter))]_vars

\* The engine panicked while running the call's own Query and the call
\* returned the channel-closed error.
C7_Witness ==
    /\ callerPc = "idle"
    /\ thread = "panicked"
    /\ callIdx > 0
    /\ lastExec = callIdx
    /\ Len(respLog) < callIdx
    /\ callResult = ErrResult(RecvClosed(adapter))

\* C8 as stated: in the blocking adapter a call waiting for its Response
\* stays blocked when the dispatcher hangs or crashes.
C8_BlockedForever ==
    [][(adapter = "sync" /\ CallWaiting
          /\ (thread = "hung" \/ ThreadCrashed))
         => callerPc' = "call_recv"]_vars

\* C8 as amended: in the blocking adapter a call waiting for its Response
\* stays blocked while the dispatcher hangs (no timeout at the channel); when
\* the dispatcher has crashed the call returns the channel-closed error.
C8_HungBlocksCrashReturns ==
    /\ [][(adapter = "sync" /\ CallWaiting /\ thread = "hung")
            => callerPc' = "call_recv"]_vars
    /\ [][(adapter = "sync" /\ CallWaiting /\ ThreadCrashed
             /\ callerPc' # "call_recv")
            => (callerPc' = "idle"
                  /\ callResult' = ErrResult(RecvClosed("sync")))]_vars
    /\ []((adapter = "sync" /\ CallWaiting /\ thread = "hung")
            => ~ENABLED CallRecv)

\* A blocking call waits while the engine hangs in the call's own Query.
C8_Witness ==
    /\ adapter = "sync"
    /\ CallWaiting
    /\ thread = "hung"
    /\ cur.q = callIdx

\* C9: the background thread sends at most one handshake signal, exactly one
\* once it is past the handshake without having panicked, and it sends it
\* before it dequeues any Query; new() has returned Ok exactly when the
\* signal it received was Ready.
C9_Handshake ==
    /\ Len(initLog) <= 1
    /\ thread \in {"recv", "exec", "hung"} => initLog = << "Ready" >>
    /\ thread \in {"exiting", "done"} => Len(initLog) = 1
    /\ nDequeued > 0 => initLog = << "Ready" >>
    /\ newResult.tag = "Ok" <=> (initLog = << "Ready" >> /\ initChan = << >>)
    /\ (initLog = << "InitError" >> /\ initChan = << >>)
          => newResult.tag = "Err"

\* new() returned Ok and the dispatcher went on to dequeue a Query.
C9_Witness ==
    /\ newResult.tag = "Ok"
    /\ initLog = << "Ready" >>
    /\ nDequeued > 0

\* new() has returned (the caller is past its wait on init_rx and the join).
NewReturned == callerPc \notin {"start", "new_wait", "new_join"}

\* C10 as stated: when Engine construction returned an error, new() returns
\* Err carrying it and no background thread is running once it has returned.
C10_NoThreadAtReturn ==
    (initLog = << "InitError" >> /\ NewReturned) =>
        /\ newResult = ErrResult(InitError)
        /\ ThreadTerminated

\* C10 as amended: when Engine construction returned an error, new() returns
\* Err carrying it; the thread is not joined on this path, so once new() has
\* returned the thread is returning or has terminated, and it has dequeued no
\* Query and run no Engine operation.
C10_InitErrorReturned ==
    (initLog = << "InitError" >> /\ NewReturned) =>
        /\ newResult = ErrResult(InitError)
        /\ callerPc = "finished"
        /\ thread \in {"exiting", "done"}
        /\ nDequeued = 0
        /\ lastExec = 0

\* new() returned the construction error while the thread had not yet
\* returned from its closure.
C10_Witness ==
    /\ newResult = ErrResult(InitError)
    /\ callerPc = "finished"
    /\ thread = "exiting"

\* C11: when the thread panics before it sent any handshake signal, new()
\* reaches its join only on a closed, empty init channel, and returns an Err;
\* at that return the thread has terminated and none of the worker's Query or
\* Response endpoints is alive.
C11_StartupPanicJoined ==
    /\ callerPc = "new_join" => (initChan = << >> /\ ~InitTxAlive)
    /\ (newResult # NoResult /\ initLog = << >>) =>
          /\ newResult.tag = "Err"
          /\ ThreadTerminated
          /\ ~QueryTxAlive /\ ~QueryRxAlive
          /\ ~RespTxAlive /\ ~RespRxAlive

\* The runtime's construction panicked and new() has returned.
C11_Witness ==
    /\ callerPc = "finished"
    /\ thread = "panicked"
    /\ initLog = << >>
    /\ panicPayload \in EnginePayloads
    /\ newResult.tag = "Err"

\* The text new() sanitizes: the payload when it is text, else the generic
\* message; and the position of its first marker (one past the end if none).
StartupText == IF panicPayload = NotText THEN CouldNotStart ELSE panicPayload
FirstMarker(text) ==
    IF \E i \in 1..Len(text) : text[i] = "Stack backtrace"
    THEN CHOOSE i \in 1..Len(text) :
            /\ text[i] = "Stack backtrace"
            /\ \A k \in 1..(i - 1) : text[k] # "Stack backtrace"
    ELSE Len(text) + 1
StartupMessage == Tail(newResult.e)
StartupPanicReturned == newResult # NoResult /\ initLog = << >>

PanickedWithText ==
    thread = "panicked" /\ panicPayload \notin {NoPayload, NotText}

C14_PanicSurfacesAsErr ==
    /\ (thread = "panicked" /\ joinResult # NoResult) =>
          joinResult.tag = "Err"
    /\ (ThreadCrashed /\ stopResult # NoResult) => stopResult.tag = "Err"
    /\ (thread = "panicked" /\ callerPc = "join_wait") => ENABLED JoinEnd
    /\ (thread = "panicked" /\ callerPc = "stop_join") => ENABLED StopJoin
    /\ (ThreadCrashed /\ callerPc = "idle") => ENABLED Stop
    /\ joinResult.tag \in {"none", "Ok", "Err"}
    /\ stopResult.tag \in {"none", "Ok", "Err"}

\* join() was called directly on a worker whose dispatcher panicked in an
\* Engine operation, and returned the Err.
C14_Witness ==
    /\ callerPc = "finished"
    /\ thread = "panicked"
    /\ lastExec > 0
    /\ stopIdx = 0
    /\ joinResult.tag = "Err"

\* C15: when an adapter operation receives a Response whose tag is neither
\* its success tag (ModuleId for the two loads, Value for the other four) nor
\* Error, it returns the "Unexpected response from the worker" error; it
\* returns Ok only for a Response with its success tag.
C15_UnexpectedResponse ==
    [][(callerPc = "call_recv" /\ callerPc' = "idle" /\ respChan # << >>) =>
         LET r == Head(respChan)
             expected == IF callOp \in {"LoadMainModule", "LoadModule"}
                         THEN "ModuleId" ELSE "Value"
         IN /\ r.tag \notin {expected, "Error"} =>
                  callResult' = ErrResult(UnexpectedResponse)
            /\ callResult'.tag = "Ok" => r.tag = expected]_vars

\* load_module received the Value answering an earlier raw Eval.
C15_Witness ==
    /\ callerPc = "idle"
    /\ callOp = "LoadModule"
    /\ callIdx = 2
    /\ Len(respLog) >= 1
    /\ respLog[1].tag = "Value"
    /\ Len(respChan) < Len(respLog)
    /\ callResult = ErrResult(UnexpectedResponse)

\* The dispatcher's step in which the Engine operation run for the dequeued
\* Query failed.
EngineFailedStep ==
    /\ thread = "exec"
    /\ lastExec' = cur.q
    /\ lastExec' # lastExec
    /\ lastOutcome' = "Err"

\* C16: when the Engine operation of a Query fails, the dispatcher leaves its
\* module table as it was and, the worker being there to receive, sends
\* Error(e) with the Engine's error e and goes back to rx.recv(); an adapter
\* operation that receives an Error(e) returns Err(e) with that same e.
C16_EngineErrorVerbatim ==
    /\ [][EngineFailedStep =>
            /\ modules' = modules
            /\ RespRxAlive =>
                  /\ thread' = "recv"
                  /\ respLog' = Append(respLog, Response("Error", 0,
                                                          EngineError, cur.q))
                  /\ respChan' = Append(respChan, Response("Error", 0,
                                                            EngineError,
                                                            cur.q))]_vars
    /\ [][(callerPc = "call_recv" /\ callerPc' = "idle"
             /\ respChan # << >> /\ Head(respChan).tag = "Error") =>
            callResult' = ErrResult(Head(respChan).e)]_vars

\* The Engine operation of the call's own Query failed; the call returned
\* the Engine's error and the dispatcher waits for the next Query.
C16_Witness ==
    /\ callerPc = "idle"
    /\ thread = "recv"
    /\ callIdx > 0
    /\ lastExec = callIdx
    /\ lastOutcome = "Err"
    /\ respLog[Len(respLog)].q = callIdx
    /\ callResult = ErrResult(EngineError)

\* The dispatcher's step that handles the dequeued Query (cur).
HandlesStep == thread = "exec" /\ thread' # "exec"

\* The dequeued Query names a module id that is not in the table.
NamesUnknownModule ==
    /\ cur.kind \in {"CallEntrypoint", "CallFunction", "GetValue"}
    /\ cur.id # 0
    /\ cur.id \notin modules

\* C17: a CallEntrypoint(id), CallFunction(Some(id)) or GetValue(Some(id))
\* whose id is not in the module table is answered with
\* Error("Module not found"), no Engine operation runs for it and the table is
\* unchanged; for CallFunction(None) and GetValue(None) the Engine operation
\* always runs and the dispatcher's Response is never that error.
C17_ModuleNotFound ==
    /\ [][(HandlesStep /\ NamesUnknownModule) =>
            /\ lastExec' = lastExec
            /\ modules' = modules
            /\ RespRxAlive =>
                  respLog' = Append(respLog,
                                    Response("Error", 0, ModuleNotFound,
                                             cur.q))]_vars
    /\ [][(HandlesStep /\ cur.kind \in {"CallFunction", "GetValue"}
             /\ cur.id = 0) =>
            /\ lastExec' = cur.q
            /\ respLog' # respLog =>
                  respLog'[Len(respLog')].e # ModuleNotFound]_vars

\* An operation naming module 1 before any module was loaded was answered
\* with "Module not found" and no Engine operation has run.
C17_Witness ==
    /\ thread = "recv"
    /\ lastExec = 0
    /\ modules = {}
    /\ Len(respLog) = 1
    /\ respLog[1] = Response("Error", 0, ModuleNotFound, 1)
    /\ callResult = ErrResult(ModuleNotFound)

\* The ids carried by the ModuleId Responses the dispatcher has sent.
AnsweredIds ==
    {respLog[i].id : i \in {j \in 1..Len(respLog) :
                               respLog[j].tag = "ModuleId"}}

DispatcherRunning == thread \in {"recv", "exec", "hung"}

\* C18: the module table is empty until the dispatcher runs and no step
\* removes a key; while the dispatcher runs its keys are exactly the ids of
\* the ModuleId Responses sent so far, each of which answers a load; the
\* table changes only in a step that handles a load whose Engine operation
\* succeeded.
C18_TableGrowsByLoads ==
    /\ [](thread \in {"none", "init"} => modules = {})
    /\ [][modules \subseteq modules']_vars
    /\ [](DispatcherRunning => modules = AnsweredIds)
    /\ [][modules' # modules =>
            /\ HandlesStep
            /\ cur.kind \in {"LoadMainModule", "LoadModule"}
            /\ lastExec' = cur.q
            /\ lastOutcome' = "Ok"]_vars
    /\ [][(respLog' # respLog
             /\ respLog'[Len(respLog')].tag = "ModuleId") =>
            cur.kind \in {"LoadMainModule", "LoadModule"}]_vars

\* After a Query that was answered with an Error and a load that was
\* answered with ModuleId(1), the table holds exactly 1.
C18_Witness ==
    /\ thread = "recv"
    /\ Len(respLog) = 2
    /\ respLog[1].tag = "Error"
    /\ respLog[2].tag = "ModuleId"
    /\ modules = {respLog[2].id}

\* The positions in respLog of the Responses to successful loads.
LoadAnswers == {j \in 1..Len(respLog) : respLog[j].tag = "ModuleId"}

\* C19: no two ModuleId Responses of one worker carry the same id, and a
\* successful load always adds a key to the module table (its insert does
\* not overwrite an entry).
C19_DistinctHandleIds ==
    /\ [](\A i \in LoadAnswers : \A j \in LoadAnswers :
             i # j => respLog[i].id # respLog[j].id)
    /\ [][(HandlesStep /\ cur.kind \in {"LoadMainModule", "LoadModule"}
             /\ lastExec' = cur.q /\ lastOutcome' = "Ok") =>
            (modules' # modules /\ modules \subseteq modules')]_vars

\* Two loads succeeded one after the other.
C19_Witness ==
    /\ thread = "recv"
    /\ LoadAnswers = {1, 2}
    /\ respLog[1].id # respLog[2].id
    /\ modules = {respLog[1].id, respLog[2].id}

\* C20: the receiver's mutex makes the receives mutually exclusive and
\* nothing more: a task may send whoever holds the mutex, and a receive hands
\* out the oldest unread Response whichever task's Query it answers.  (That
\* a task thereby gets the Response to the other task's Query is
\* C20_Witness.)
C20_LockCoversReceiveOnly ==
    /\ [](\A t \in Tasks : taskPc[t] = "locked" <=> rxLock = t)
    /\ [](\A t \in Tasks :
             (adapter = "async" /\ callerPc = "idle" /\ taskPc[t] = "idle"
                /\ Len(sentLog) < MaxSends) => ENABLED TaskSend(t))
    /\ [][\A t \in Tasks :
             taskGot'[t] # taskGot[t] /\ taskGot'[t] # 0 =>
                 /\ respChan # << >>
                 /\ taskGot'[t] = Head(respChan).q
                 /\ respChan' = Tail(respChan)]_vars

\* Both tasks have sent; one of them has received the Response produced for
\* the other's Query.
C20_Witness ==
    \E t \in Tasks : \E u \in Tasks :
        /\ t # u
        /\ taskIdx[t] > 0
        /\ taskIdx[u] > 0
        /\ taskGot[t] = taskIdx[u]
        /\ taskResult[t] # NoResult

\* C21: when every task holds the callers' lock around its whole call, a
\* task that receives a Response receives the one produced for its own
\* Query, a call that returns without one does so only because none was
\* produced, and no unread Response is left when the lock is free.
C21_OwnResponse ==
    /\ \A t \in Tasks : taskGot[t] # 0 => taskGot[t] = taskIdx[t]
    /\ \A t \in Tasks :
          (taskPc[t] = "idle" /\ taskIdx[t] > 0 /\ taskGot[t] = 0) =>
              /\ taskResult[t] = ErrResult(RecvClosed(adapter))
              /\ \A i \in 1..Len(respLog) : respLog[i].q # taskIdx[t]
    /\ extLock = 0 => respChan = << >>

\* Both tasks have called, one after the other, and each got the Response
\* to its own Query.
C21_Witness ==
    /\ extLock = 0
    /\ \A t \in Tasks : taskIdx[t] > 0 /\ taskGot[t] = taskIdx[t]
    /\ \A t \in Tasks : taskResult[t].tag = "Ok"

\* Every Query sender is gone (the worker was dropped), no Stop was sent and
\* the dispatcher is in its loop.
SendersDroppedRunning ==
    /\ callerPc = "dropped"
    /\ ~HasStop(sentLog)
    /\ DispatcherRunning

\* C22: once every Query sender is dropped while the dispatcher runs and no
\* Stop was sent, the dispatcher leaves its loop and the thread function
\* returns (unless the Engine itself panics); no Response is emitted after
\* the senders are gone, and after the thread has ended no Engine operation
\* runs and no Response is emitted.
C22_ChannelCloseStops ==
    /\ SendersDroppedRunning ~>
          (thread = "done"
             \/ (thread = "panicked" /\ panicPayload \in EnginePayloads))
    /\ [][callerPc = "dropped" => respLog' = respLog]_vars
    /\ [][ThreadTerminated =>
            (lastExec' = lastExec /\ respLog' = respLog)]_vars

\* C23: the thread constructs the runtime once (it enters the construction
\* only when spawned and never again); the Engine's state and the module
\* table change only in a step of the dispatcher that handles the dequeued
\* Query; and the dispatcher has at most one Query in hand: waiting in
\* rx.recv() every dequeued Query has had its Response sent, while it handles
\* one exactly that one is unanswered.
C23_SingleThreadedEngine ==
    /\ [][thread' = "init" => (thread = "init" \/ (thread = "none"
                                  /\ callerPc = "start"))]_vars
    /\ [][(lastExec' # lastExec \/ lastOutcome' # lastOutcome
             \/ modules' # modules \/ nextId' # nextId) =>
            HandlesStep]_vars
    /\ [](thread \in {"none", "init"} => (nDequeued = 0 /\ lastExec = 0))
    /\ [](thread = "recv" => nDequeued = Len(respLog))
    /\ [](thread \in {"exec", "hung"} =>
             (nDequeued = Len(respLog) + 1 /\ cur.q = nDequeued))

\* An Engine operation runs for the first Query while the second is queued.
C23_Witness ==
    /\ thread = "exec"
    /\ cur.q = 1
    /\ Len(queryChan) = 1
    /\ queryChan[1].q = 2
    /\ respLog = << >>

\* The Engine operation the Query variants stand for.
ClaimedOp(kind) ==
    CASE kind = "Eval" -> "eval"
      [] kind = "LoadMainModule" -> "load_main_module"
      [] kind = "LoadModule" -> "load_module"
      [] kind = "CallEntrypoint" -> "call_entrypoint"
      [] kind = "CallFunction" -> "call_function"
      [] kind = "GetValue" -> "get_value"
      [] OTHER -> "none"

\* C24: handling a non-Stop Query (one that names no unknown module), the
\* dispatcher runs an Engine operation for it, and that operation is the one
\* the Query variant stands for: eval for Eval, load_main_module for
\* LoadMainModule, load_module for LoadModule, and so on; the Response it
\* sends is that operation's.
C24_CorrespondingOp ==
    [][(HandlesStep /\ cur.kind # "Stop" /\ ~NamesUnknownModule) =>
         /\ lastExec' = cur.q
         /\ lastOp' = ClaimedOp(cur.kind)
         /\ respLog' # respLog => respLog'[Len(respLog')].q = cur.q]_vars

\* An adapter operation that decodes a Value receives a Value.
ReceivesValueStep ==
    /\ callerPc = "call_recv"
    /\ callerPc' = "idle"
    /\ respChan # << >>
    /\ Head(respChan).tag = "Value"
    /\ callOp \in {"Eval", "CallEntrypoint", "CallFunction", "GetValue"}

\* C25: an operation that receives a Value returns Ok or, when the Value does
\* not decode, the decoding Err; it never panics.  Failing to decode touches
\* nothing but the caller's result: the Response is consumed, the dispatcher
\* is where it was, the channels and the module table are as they were, so
\* the worker can be called again.
C25_DecodeFailureIsErr ==
    /\ [][ReceivesValueStep =>
            /\ callResult' \in {OkResult(0), ErrResult(DecodeError)}
            /\ respChan' = Tail(respChan)
            /\ UNCHANGED << thread, queryChan, cur, modules, nextId,
                            panicPayload, sentLog, respLog >>]_vars
    /\ [](callResult.tag \in {"none", "Ok", "Err"})
    /\ []((callerPc = "idle" /\ callResult = ErrResult(DecodeError)
             /\ Len(sentLog) < MaxSends) => ENABLED Call)

\* A call received the Value answering its own Query and failed to decode
\* it; the dispatcher waits for the next Query.
C25_Witness ==
    /\ callerPc = "idle"
    /\ thread = "recv"
    /\ callIdx = 1
    /\ respLog # << >>
    /\ respLog[1].tag = "Value"
    /\ respChan = << >>
    /\ callResult = ErrResult(DecodeError)

ValidateReturned == util.fn = "validate" /\ util.pc = "done"

\* C26: validate returns Ok(true) when the runtime was created and the load
\* succeeded, Ok(false) when the load failed with Error::Runtime or
\* Error::JsError, and Err of the very error when the load failed with any
\* other error or the runtime could not be created.
C26_ValidateOutcome ==
    ValidateReturned =>
        /\ (util.ctor.ok /\ util.load.ok) =>
              util.result = [tag |-> "Ok", value |-> TRUE]
        /\ (util.ctor.ok /\ ~util.load.ok
              /\ util.load.e[1] \in {"Runtime", "JsError"}) =>
              util.result = [tag |-> "Ok", value |-> FALSE]
        /\ (util.ctor.ok /\ ~util.load.ok
              /\ util.load.e[1] \notin {"Runtime", "JsError"}) =>
              util.result = [tag |-> "Err", e |-> util.load.e]
        /\ ~util.ctor.ok => util.result = [tag |-> "Err", e |-> util.ctor.e]

\* The load failed with an error that is neither Runtime nor JsError, and
\* validate returned it.
C26_Witness ==
    /\ ValidateReturned
    /\ util.ctor.ok
    /\ util.load = [ok |-> FALSE, e |-> << "Timeout", "m1" >>]
    /\ util.result = [tag |-> "Err", e |-> << "Timeout", "m1" >>]

BothCallbacksReturned ==
    /\ util.fn = "callback"
    /\ util.sync # CallbackPending
    /\ util.async # CallbackPending

\* The arguments supplied for the declared parameters, in order.
BoundPrefix ==
    SubSeq(util.args, 1, IF Len(util.args) < util.nParams
                         THEN Len(util.args) ELSE util.nParams)

SomeBoundArgUndecodable ==
    \E i \in 1..Len(BoundPrefix) : BoundPrefix[i] = "bad"

\* C27 (as stated): the two callbacks return the same result, and with
\* fewer arguments than parameters both return Err("Invalid number of
\* arguments") without running the body.
C27_SameResult ==
    BothCallbacksReturned =>
        /\ util.sync = util.async
        /\ Len(util.args) < util.nParams =>
              /\ util.sync.e = InvalidArgCount
              /\ ~util.sync.ran

\* C27 (amended): when every argument bound to a parameter decodes, the two
\* callbacks return the same result, which is Err("Invalid number of
\* arguments") with the body not run when the arguments are fewer than the
\* parameters; when one of them does not decode, both return an Err without
\* running the body, the async one as Error::Runtime of the decode error's
\* text and the sync one as the decode error's From conversion, whatever
\* the count; arguments beyond the parameters never matter.
C27_SameResultWhenArgsDecode ==
    BothCallbacksReturned =>
        /\ ~SomeBoundArgUndecodable =>
              /\ util.sync = util.async
              /\ Len(util.args) < util.nParams =>
                    /\ util.sync.tag = "Err"
                    /\ util.sync.e = InvalidArgCount
                    /\ ~util.sync.ran
              /\ Len(util.args) >= util.nParams =>
                    /\ util.sync.ran
                    /\ util.sync.tag = "Ok" <=> (util.body /\ util.encodes)
        /\ SomeBoundArgUndecodable =>
              /\ util.sync.tag = "Err" /\ ~util.sync.ran
              /\ util.async.tag = "Err" /\ ~util.async.ran
              /\ util.async.e = << "Runtime", ArgDecodeText >>
              /\ util.sync.e = << util.fromKind, ArgDecodeText >>
        /\ \A u \in [fn : {"callback"}, nParams : {util.nParams},
                      args : ArgLists, body : {util.body},
                      encodes : {util.encodes}, fromKind : {util.fromKind},
                      sync : {CallbackPending}, async : {CallbackPending}] :
              (/\ Len(u.args) >= util.nParams
               /\ Len(util.args) >= util.nParams
               /\ SubSeq(u.args, 1, util.nParams) = BoundPrefix) =>
                  /\ SyncCallback(u) = util.sync
                  /\ AsyncCallback(u) = util.async

\* Two parameters, one argument and that one does not decode: both
\* callbacks returned the decode error, not the count error.
C27_Witness ==
    /\ BothCallbacksReturned
    /\ util.nParams = 2
    /\ util.args = << "bad" >>
    /\ util.sync.tag = "Err" /\ util.sync.e # InvalidArgCount
    /\ util.async.tag = "Err" /\ util.async.e # InvalidArgCount

\* C28: an adapter operation that sends its Query finds no unread Response
\* on the channel, and the Response it takes is the one produced for its own
\* Query -- also after a raw send() without receive() and after an abandoned
\* operation.
C28_OwnResponseAlways ==
    /\ [][(callerPc = "idle" /\ callerPc' = "call_recv") =>
             respChan = << >>]_vars
    /\ [][(callerPc = "call_recv" /\ callerPc' = "idle"
             /\ respChan' # respChan) => Head(respChan).q = callIdx]_vars

\* C29: the background thread never panics because of a channel operation:
\* whenever it has panicked, the panic came out of the Engine.
C29_NoChannelPanic ==
    ThreadCrashed => panicPayload # UnwrapPayload

JoinReturned == callerPc = "finished" /\ joinResult # NoResult

\* C30: join() on a worker that was sent no Stop and whose thread has not
\* panicked does not return: while the caller waits in join() the thread
\* never sees the Query channel closed and has not terminated, and a join()
\* that has returned was preceded by a Stop or by a panic.
C30_JoinWithoutStopBlocks ==
    /\ [](JoinReturned => (HasStop(sentLog) \/ thread = "panicked"))
    /\ [][callerPc = "join_wait" =>
             ~(thread = "recv" /\ thread' = "exiting")]_vars
    /\ []((callerPc = "join_wait" /\ ~HasStop(sentLog)
            /\ ~ThreadCrashed) => ~JoinReady(thread))

\* The caller waits in join(), no Stop was sent, every Query has been
\* answered and the thread waits for the next one.
C30_Witness ==
    /\ callerPc = "join_wait"
    /\ ~HasStop(sentLog)
    /\ thread = "recv"
    /\ queryChan = << >>
    /\ Len(respLog) > 0

NewWaiting == callerPc \in {"new_wait", "new_join"}

\* C31: new() always terminates: once the thread is spawned and the caller
\* waits on the init channel, the constructor eventually returns Ok or Err,
\* whether the construction of the Engine succeeds, returns an error or
\* panics before the signal, in both adapters.
C31_NewTerminates ==
    NewWaiting ~> (~NewWaiting /\ newResult.tag \in {"Ok", "Err"})

\* The async constructor has returned through the join: the thread panicked
\* before signalling and has terminated.
C31_Witness ==
    /\ adapter = "async"
    /\ callerPc = "finished"
    /\ initLog = << >>
    /\ thread = "panicked"
    /\ newResult.tag = "Err"
    /\ sentLog = << >>

\* C32: with one caller that uses only the six adapter operations, each run
\* to completion, no operation returns "Unexpected response from the
\* worker": Eval, CallEntrypoint, CallFunction and GetValue are answered
\* with Value or Error, LoadMainModule and LoadModule with ModuleId or
\* Error, and the operation that receives the answer is the one that asked.
C32_NoUnexpectedResponse ==
    /\ [](callResult # ErrResult(UnexpectedResponse))
    /\ [][(HandlesStep /\ respLog' # respLog) =>
             LET r == respLog'[Len(respLog')]
             IN  /\ cur.kind \in {"Eval", "CallEntrypoint", "CallFunction",
                                  "GetValue"} =>
                       r.tag \in {"Value", "Error"}
                 /\ cur.kind \in {"LoadMainModule", "LoadModule"} =>
                       r.tag \in {"ModuleId", "Error"}
                 /\ cur.kind \in OpKinds]_vars
    /\ [](callerPc = "call_recv" =>
            \A i \in 1..Len(respChan) : respChan[i].q = callIdx)

\* A load and then an operation returning a value have both completed with
\* Ok.
C32_Witness ==
    /\ callerPc = "idle"
    /\ Len(respLog) = 2
    /\ respLog[1].tag = "ModuleId"
    /\ respLog[2].tag = "Value"
    /\ respChan = << >>
    /\ callResult.tag = "Ok"


====
